---------------------------- MODULE Spec2Model ----------------------------
(* State-machine model of the crop structure annotation tool (main.py):   *)
(* the annotation store of the displayed image, the mouse callback, the   *)
(* key loop of main() and the json files of the save directory.           *)
(* Drawing state (cursor, canvas, need_rerendering, label_view) has no    *)
(* effect on the store or on the files and is left out.                   *)
(* The converter of XML annotations (xml_to_json.py) is a second program  *)
(* with its own variables and its own specification.                      *)
EXTENDS Integers, Sequences, FiniteSets, TLC

VARIABLES
    labels,        \* args.labels, fixed at start-up
    images,        \* ImageReader.images, fixed at start-up
    label,         \* the active label of main()
    index,         \* ImageReader._index (0-based)
    annotations,   \* ImageAnnotation.annotations of the store
    target_index,  \* ImageAnnotation._target_index: None or Some(i), 0-based
    files,         \* the json file of each image in save_dir
    event,         \* the last event dispatched (mouse event or key)
    exc,           \* the exception the last handler raised, or "none"
    status,        \* "running", "quit" (key 'q') or "crashed"; "idle": not run
    map,           \* xml_to_json: the label map, None or Some(dict)
    save_dir,      \* xml_to_json: the json files of save_dir, by file name
    xml,           \* xml_to_json: the XML file parsed last, None before the loop
    xml_done       \* xml_to_json: the number of XML files the loop has taken

toolvars == << labels, images, label, index, annotations, target_index,
               files, event, exc, status >>
convvars == << map, save_dir, xml, xml_done >>
vars == << toolvars, convvars >>

-----------------------------------------------------------------------------
(* Bounds of the model *)

\* edit sessions: at most this many entries + points + boxes in the store
MaxSize == 5
\* multi-image sessions: number of images of the directory
NumImages == 2
\* multi-image sessions: at most this many entries + points + boxes
MaxSessionSize == 4

\* box sessions: the coordinates of the pointer are 1..MaxCoord
MaxCoord == 5
\* conversions: at most this many XML files in input_dir
MaxXml == 2
\* conversions: at most this many objects in an XML file
MaxObjects == 2

\* the number keys that select a label: range(1, 10)
LastDigit == 9

\* mouse positions of edit sessions and of multi-image sessions
Pos == { <<1, 1>>, <<5, 5>> }
\* where a box drag begins in edit sessions
BoxOrigin == { <<5, 5>> }
SessionPos == { <<10, 10>> }
\* pointer positions of box sessions
BoxPos == (1..MaxCoord) \X (1..MaxCoord)

-----------------------------------------------------------------------------
(* Python values *)

None == << >>
Some(v) == << v >>

Min(a, b) == IF a <= b THEN a ELSE b
Max(a, b) == IF a >= b THEN a ELSE b

\* del s[i] for a 0-based index i
DelAt(s, i) == [k \in 1..(Len(s) - 1) |-> IF k <= i THEN s[k] ELSE s[k + 1]]

\* faulty variant: every element is dropped
FrontEmpty(s) == << >>

\* s[:-1]
Front(s) == [k \in 1..(Len(s) - 1) |-> s[k]]

-----------------------------------------------------------------------------
(* PointAnnotation *)

PointAnnotation(kind, x, y) == [kind |-> kind, x |-> x, y |-> y]

PointJsonRepr(p) == [kind |-> p.kind, location |-> [x |-> p.x, y |-> p.y]]

PointFromJson(j) == PointAnnotation(j.kind, j.location.x, j.location.y)

(* BoxAnnotation *)

BoxAnnotation(x, y, x2, y2) == [x |-> x, y |-> y, x2 |-> x2, y2 |-> y2]

UpdateTail(b, x, y) == [b EXCEPT !.x2 = x, !.y2 = y]

\* faulty variant: the first corner taken for the minimum
XMinAsFirst(b) == b.x

x_min(b) == Min(b.x, b.x2)
y_min(b) == Min(b.y, b.y2)
x_max(b) == Max(b.x, b.x2)
y_max(b) == Max(b.y, b.y2)
width(b) == x_max(b) - x_min(b)
height(b) == y_max(b) - y_min(b)

BoxJsonRepr(b) ==
    [x_min |-> x_min(b), y_min |-> y_min(b), x_max |-> x_max(b), y_max |-> y_max(b)]

\* faulty variant: both corners built from the minimum
BoxFromJsonNoTail(json_dict) ==
    IF json_dict = None THEN None
    ELSE Some(BoxAnnotation(json_dict[1].x_min, json_dict[1].y_min,
                            json_dict[1].x_min, json_dict[1].y_min))

\* json_dict is None (null or a missing key) or Some(dict)
BoxFromJson(json_dict) ==
    IF json_dict = None THEN None
    ELSE Some(BoxAnnotation(json_dict[1].x_min, json_dict[1].y_min,
                            json_dict[1].x_max, json_dict[1].y_max))

(* PlantAnnotation *)

PlantAnnotation(l, box, points) == [label |-> l, box |-> box, points |-> points]

\* faulty variant: every appended point is a stem
AppendPointAlwaysStem(a, x, y) ==
    [a EXCEPT !.points = Append(a.points, PointAnnotation("stem", x, y))]

AppendPoint(a, x, y) ==
    LET kind == IF a.points = << >> THEN "stem" ELSE "leaf"
    IN  [a EXCEPT !.points = Append(a.points, PointAnnotation(kind, x, y))]

PlantIsEmpty(a) == a.points = << >> /\ a.box = None

PlantJsonRepr(a) ==
    [label |-> a.label,
     box   |-> IF a.box # None THEN Some(BoxJsonRepr(a.box[1])) ELSE None,
     parts |-> [k \in 1..Len(a.points) |-> PointJsonRepr(a.points[k])]]

PlantFromJson(j) ==
    PlantAnnotation(j.label, BoxFromJson(j.box),
                    [k \in 1..Len(j.parts) |-> PointFromJson(j.parts[k])])

-----------------------------------------------------------------------------
(* ImageAnnotation: the store is the pair (annotations, target_index) *)

\* faulty variant: the setter without the modulo
SetTargetIndexNoWrap(anns, value) ==
    IF Len(anns) # 0 THEN Some(value) ELSE None

\* faulty variant: the setter clamps, as the image index does
SetTargetIndexClamp(anns, value) ==
    IF Len(anns) # 0 THEN Some(Min(Max(value, 0), Len(anns) - 1)) ELSE None

\* the target_index setter, for the list anns
SetTargetIndex(anns, value) ==
    IF Len(anns) # 0 THEN Some(value % Len(anns)) ELSE None

\* store.target, defined when target_index is not None
Target(anns, tidx) == anns[tidx[1] + 1]

\* faulty variant: annotations[0] for annotations[-1]
LastAsFirst(anns) == anns[1]

\* store.last
Last(anns) == anns[Len(anns)]

StoreIsEmpty(anns) == Len(anns) = 0

\* faulty variant: the first entry is written, not the target
WithTargetFirst(anns, tidx, a) == [anns EXCEPT ![1] = a]

\* the store after store.target = f(store.target)
WithTarget(anns, tidx, a) == [anns EXCEPT ![tidx[1] + 1] = a]

\* append(annotation)
StoreAppend(anns, a) ==
    LET new == Append(anns, a)
    IN  [annotations |-> new, target_index |-> SetTargetIndex(new, Len(new) - 1)]

\* faulty variant: pop_target without the step back
PopTargetKeepIndex(anns, tidx) ==
    IF anns = << >> THEN
        [annotations |-> anns, target_index |-> None]
    ELSE
        LET new == DelAt(anns, tidx[1])
        IN  [annotations |-> new,
             target_index |-> IF Len(new) # 0 THEN Some(tidx[1] % Len(new)) ELSE None]

\* pop_target()
PopTarget(anns, tidx) ==
    IF anns = << >> THEN
        [annotations |-> anns, target_index |-> SetTargetIndex(anns, 0)]
    ELSE
        LET new == DelAt(anns, tidx[1])
        IN  [annotations |-> new, target_index |-> SetTargetIndex(new, tidx[1] - 1)]

\* create_annotation_if_needed(label)
CreateAnnotationIfNeeded(anns, tidx, l) ==
    IF StoreIsEmpty(anns) THEN
        LET new == << PlantAnnotation(l, None, << >>) >>
        IN  [annotations |-> new, target_index |-> SetTargetIndex(new, 0)]
    ELSE [annotations |-> anns, target_index |-> tidx]

\* reset()
Reset == [annotations |-> << >>, target_index |-> SetTargetIndex(<< >>, 0)]

\* a json file of the save directory
NoFile == [exists |-> FALSE, image_name |-> "", crops |-> << >>]

\* load_from_json(json_file)
LoadFromJson(file) ==
    IF ~file.exists THEN Reset
    ELSE LET new == [k \in 1..Len(file.crops) |-> PlantFromJson(file.crops[k])]
         IN  [annotations |-> new, target_index |-> SetTargetIndex(new, Len(new) - 1)]

NotEmptyPlant(a) == ~PlantIsEmpty(a)

\* faulty variant: the file is removed only when every entry is empty
SaveJsonAllEmpty(anns, image) ==
    LET kept == SelectSeq(anns, NotEmptyPlant)
    IN  IF kept = << >> THEN NoFile
        ELSE [exists |-> TRUE, image_name |-> image,
              crops |-> [k \in 1..Len(kept) |-> PlantJsonRepr(kept[k])]]

\* faulty variant: an empty store is written as a record without crops
SaveJsonEmptyRecord(anns, image) ==
    IF StoreIsEmpty(anns) THEN [exists |-> TRUE, image_name |-> image, crops |-> << >>]
    ELSE IF PlantIsEmpty(anns[1]) THEN NoFile
    ELSE LET kept == SelectSeq(anns, NotEmptyPlant)
         IN  [exists |-> TRUE, image_name |-> image,
              crops |-> [k \in 1..Len(kept) |-> PlantJsonRepr(kept[k])]]

\* faulty variant: the crops are not filtered
SaveJsonNoFilter(anns, image) ==
    IF StoreIsEmpty(anns) \/ PlantIsEmpty(anns[1]) THEN NoFile
    ELSE [exists |-> TRUE, image_name |-> image,
          crops |-> [k \in 1..Len(anns) |-> PlantJsonRepr(anns[k])]]

\* save_json(image_path, save_dir): the file of the image after the call
SaveJson(anns, image) ==
    IF StoreIsEmpty(anns) \/ PlantIsEmpty(anns[1]) THEN NoFile
    ELSE LET kept == SelectSeq(anns, NotEmptyPlant)
         IN  [exists |-> TRUE, image_name |-> image,
              crops |-> [k \in 1..Len(kept) |-> PlantJsonRepr(kept[k])]]

-----------------------------------------------------------------------------
(* ImageReader *)

\* the index setter
SetIndex(value) == Min(Max(value, 0), Len(images) - 1)

img_name == images[index + 1]

-----------------------------------------------------------------------------
(* Start-up: main() up to the key loop *)

Start(lbls, imgs) ==
    /\ labels = lbls
    /\ images = imgs
    /\ label = lbls[1]
    /\ index = 0
    /\ files = [i \in 0..(Len(imgs) - 1) |-> NoFile]
    /\ annotations = LoadFromJson(files[0]).annotations
    /\ target_index = LoadFromJson(files[0]).target_index
    /\ event = [kind |-> "start", name |-> "", flags |-> 0, log |-> "Application started"]
    /\ exc = "none"
    /\ status = "running"
    /\ map = None
    /\ save_dir = << >>
    /\ xml = None
    /\ xml_done = 0

-----------------------------------------------------------------------------
(* How a handler ends *)

\* cv.EVENT_FLAG_LBUTTON + cv.EVENT_FLAG_SHIFTKEY
DragFlags == 17
Flags == { 0, DragFlags }

\* log is the last message the handler wrote with logging.info, "" if none
MouseEvent(name, flags) ==
    [kind |-> "mouse", name |-> name, flags |-> flags, log |-> ""]
KeyEvent(name) == [kind |-> "key", name |-> name, flags |-> 0, log |-> ""]

\* the handler ran to its end
Returns(ev, msg) ==
    /\ event' = [ev EXCEPT !.log = msg]
    /\ exc' = "none"
    /\ status' = "running"
    /\ UNCHANGED convvars

\* the mouse callback raised: the store is as it was; whether the key loop
\* goes on after an exception in the callback is decided by the cv binding,
\* not by main.py, so both outcomes are kept
RaisesInCallback(ev, e) ==
    /\ event' = ev
    /\ exc' = e
    /\ status' \in { "running", "crashed" }
    /\ UNCHANGED << labels, images, label, index, annotations, target_index, files >>
    /\ UNCHANGED convvars

\* the key loop raised: main() ends with the exception, nothing is saved
RaisesInLoop(ev, e) ==
    /\ event' = ev
    /\ exc' = e
    /\ status' = "crashed"
    /\ UNCHANGED << labels, images, label, index, annotations, target_index, files >>
    /\ UNCHANGED convvars

-----------------------------------------------------------------------------
(* on_mouse_event(event, x, y, flags, params) *)

OnMouseEvent(name, x, y, flags) ==
    LET ev == MouseEvent(name, flags)
        made == CreateAnnotationIfNeeded(annotations, target_index, label)
    IN
    /\ status = "running"
    /\ IF name = "LBUTTONDBLCLK" THEN
            IF made.target_index = None THEN RaisesInCallback(ev, "TypeError")
            ELSE /\ annotations' = WithTarget(made.annotations, made.target_index,
                        AppendPoint(Target(made.annotations, made.target_index), x, y))
                 /\ target_index' = made.target_index
                 /\ UNCHANGED << labels, images, label, index, files >>
                 /\ Returns(ev, "New keypoint annotation added")
       ELSE IF name = "MOUSEMOVE" THEN
            IF flags = DragFlags THEN
                IF target_index = None THEN RaisesInCallback(ev, "TypeError")
                ELSE IF Target(annotations, target_index).box = None
                     THEN RaisesInCallback(ev, "AttributeError")
                ELSE /\ annotations' = WithTarget(annotations, target_index,
                            [Target(annotations, target_index) EXCEPT
                                !.box = Some(UpdateTail(@[1], x, y))])
                     /\ UNCHANGED << labels, images, label, index, target_index, files >>
                     /\ Returns(ev, "")
            ELSE /\ UNCHANGED << labels, images, label, index, annotations,
                                  target_index, files >>
                 /\ Returns(ev, "")
       ELSE IF flags = DragFlags /\ name = "LBUTTONDOWN" THEN
            IF made.target_index = None THEN RaisesInCallback(ev, "TypeError")
            ELSE /\ annotations' = WithTarget(made.annotations, made.target_index,
                        [Target(made.annotations, made.target_index) EXCEPT
                            !.box = Some(BoxAnnotation(x, y, x, y))])
                 /\ target_index' = made.target_index
                 /\ UNCHANGED << labels, images, label, index, files >>
                 /\ Returns(ev, IF StoreIsEmpty(annotations)
                            THEN "New crop annotation added (cause: no current crop annotation)"
                            ELSE "")
       ELSE IF flags = DragFlags /\ name = "LBUTTONUP" THEN
            IF target_index = None THEN RaisesInCallback(ev, "TypeError")
            ELSE IF Target(annotations, target_index).box = None
                 THEN RaisesInCallback(ev, "AttributeError")
            ELSE /\ annotations' = WithTarget(annotations, target_index,
                        [Target(annotations, target_index) EXCEPT
                            !.box = Some(UpdateTail(@[1], x, y))])
                 /\ UNCHANGED << labels, images, label, index, target_index, files >>
                 /\ Returns(ev, "Bounding box added to target crop annotation")
       ELSE /\ UNCHANGED << labels, images, label, index, annotations,
                             target_index, files >>
            /\ Returns(ev, "")

\* the gestures of the mouse
PointCommit(x, y) == OnMouseEvent("LBUTTONDBLCLK", x, y, 0)
CursorMove(x, y) == OnMouseEvent("MOUSEMOVE", x, y, 0)
DragMove(x, y) == OnMouseEvent("MOUSEMOVE", x, y, DragFlags)
BoxBegin(x, y) == OnMouseEvent("LBUTTONDOWN", x, y, DragFlags)
BoxEnd(x, y) == OnMouseEvent("LBUTTONUP", x, y, DragFlags)

-----------------------------------------------------------------------------
(* The key loop of main(): one action per key *)

\* what save_json logs last, writing on the file `file`
SaveLog(anns, file) ==
    IF StoreIsEmpty(anns) \/ PlantIsEmpty(anns[1]) THEN
        IF file.exists THEN "Json file removed because it was empty" ELSE ""
    ELSE "Saved Json file"

\* key 'q'
KeyQ ==
    /\ status = "running"
    /\ files' = [files EXCEPT ![index] = SaveJson(annotations, img_name)]
    /\ event' = [KeyEvent("q") EXCEPT !.log = "Quiting application"]
    /\ exc' = "none"
    /\ status' = "quit"
    /\ UNCHANGED convvars
    /\ UNCHANGED << labels, images, label, index, annotations, target_index >>

\* faulty variant: key 'z' without the test of store.is_empty
KeyZUnguarded ==
    LET ev == KeyEvent("z") IN
    /\ status = "running"
    /\ IF target_index = None THEN RaisesInLoop(ev, "TypeError")
       ELSE LET t == Target(annotations, target_index) IN
            /\ IF ~PlantIsEmpty(t) THEN
                   IF t.box # None THEN
                       /\ annotations' = WithTarget(annotations, target_index,
                                                    [t EXCEPT !.box = None])
                       /\ target_index' = target_index
                       /\ Returns(ev, "Last box annotation removed")
                   ELSE
                       /\ annotations' = WithTarget(annotations, target_index,
                                           [t EXCEPT !.points = Front(t.points)])
                       /\ target_index' = target_index
                       /\ Returns(ev, "Last keypoint annotation removed")
               ELSE
                   /\ annotations' = PopTarget(annotations, target_index).annotations
                   /\ target_index' = PopTarget(annotations, target_index).target_index
                   /\ Returns(ev, "Last Crop annotation removed")
            /\ UNCHANGED << labels, images, label, index, files >>

\* key 'z'
KeyZ ==
    LET ev == KeyEvent("z") IN
    /\ status = "running"
    /\ IF ~StoreIsEmpty(annotations) THEN
            IF target_index = None THEN RaisesInLoop(ev, "TypeError")
            ELSE LET t == Target(annotations, target_index) IN
                 /\ IF ~PlantIsEmpty(t) THEN
                        IF t.box # None THEN
                            /\ annotations' = WithTarget(annotations, target_index,
                                                         [t EXCEPT !.box = None])
                            /\ target_index' = target_index
                            /\ Returns(ev, "Last box annotation removed")
                        ELSE
                            /\ annotations' = WithTarget(annotations, target_index,
                                                [t EXCEPT !.points = Front(t.points)])
                            /\ target_index' = target_index
                            /\ Returns(ev, "Last keypoint annotation removed")
                    ELSE
                        /\ annotations' = PopTarget(annotations, target_index).annotations
                        /\ target_index' = PopTarget(annotations, target_index).target_index
                        /\ Returns(ev, "Last Crop annotation removed")
                 /\ UNCHANGED << labels, images, label, index, files >>
       ELSE /\ UNCHANGED << labels, images, label, index, annotations,
                             target_index, files >>
            /\ Returns(ev, "Key 'z' pressed but there is no annotation to remove")

\* key 'a'
KeyA ==
    /\ status = "running"
    /\ IF ~StoreIsEmpty(annotations) /\ ~PlantIsEmpty(Last(annotations)) THEN
            /\ annotations' =
                   StoreAppend(annotations, PlantAnnotation(label, None, << >>)).annotations
            /\ target_index' =
                   StoreAppend(annotations, PlantAnnotation(label, None, << >>)).target_index
            /\ Returns(KeyEvent("a"), "New crop annotation added (key 'a' pressed)")
       ELSE /\ target_index' = SetTargetIndex(annotations, Len(annotations) - 1)
            /\ UNCHANGED annotations
            /\ Returns(KeyEvent("a"), "Key 'a' pressed but no crop annotation added")
    /\ UNCHANGED << labels, images, label, index, files >>

\* keys '1' to '9'
KeyDigit(n) ==
    /\ status = "running"
    /\ IF n <= Len(labels) /\ ~StoreIsEmpty(annotations) /\ target_index = None THEN
            RaisesInLoop(KeyEvent("digit"), "TypeError")
       ELSE /\ IF n <= Len(labels) THEN
                    /\ label' = labels[n]
                    /\ IF ~StoreIsEmpty(annotations) THEN
                            annotations' = WithTarget(annotations, target_index,
                                [Target(annotations, target_index) EXCEPT
                                    !.label = labels[n]])
                       ELSE UNCHANGED annotations
                    /\ Returns(KeyEvent("digit"), "Current crop label set")
               ELSE /\ UNCHANGED << label, annotations >>
                    /\ Returns(KeyEvent("digit"), "")
            /\ UNCHANGED << labels, images, index, target_index, files >>

\* faulty variant: the store of the image left is kept, nothing is loaded
NavigateKeepStore(key, delta) ==
    /\ status = "running"
    /\ IF (delta = -1 /\ index > 0) \/ (delta = 1 /\ index < Len(images) - 1) THEN
            /\ files' = [files EXCEPT ![index] = SaveJson(annotations, img_name)]
            /\ index' = SetIndex(index + delta)
            /\ UNCHANGED << annotations, target_index >>
            /\ Returns(KeyEvent(key), "Moved to image")
       ELSE /\ UNCHANGED << index, annotations, target_index, files >>
            /\ Returns(KeyEvent(key), "")
    /\ UNCHANGED << labels, images, label >>

\* faulty variant: no test of the index, the clamping setter is relied on
NavigateUnguarded(key, delta) ==
    LET saved == [files EXCEPT ![index] = SaveJson(annotations, img_name)]
        dest == SetIndex(index + delta)
    IN  /\ status = "running"
        /\ files' = saved
        /\ index' = dest
        /\ annotations' = LoadFromJson(saved[dest]).annotations
        /\ target_index' = LoadFromJson(saved[dest]).target_index
        /\ Returns(KeyEvent(key),
                   IF saved[dest].exists THEN "Annotations loaded from json file"
                   ELSE "Moved to image")
        /\ UNCHANGED << labels, images, label >>

\* keys 'e' (delta = -1, ImageReader.prev) and 'r' (delta = 1, ImageReader.next)
Navigate(key, delta) ==
    /\ status = "running"
    /\ IF (delta = -1 /\ index > 0) \/ (delta = 1 /\ index < Len(images) - 1) THEN
            LET saved == [files EXCEPT ![index] = SaveJson(annotations, img_name)]
                dest == SetIndex(index + delta)
            IN  /\ files' = saved
                /\ index' = dest
                /\ annotations' = LoadFromJson(saved[dest]).annotations
                /\ target_index' = LoadFromJson(saved[dest]).target_index
                /\ Returns(KeyEvent(key),
                           IF saved[dest].exists THEN "Annotations loaded from json file"
                           ELSE "Moved to image")
       ELSE /\ UNCHANGED << index, annotations, target_index, files >>
            /\ Returns(KeyEvent(key), "")
    /\ UNCHANGED << labels, images, label >>

KeyE == Navigate("e", -1)
KeyR == Navigate("r", 1)

\* key 's'
KeyS ==
    /\ status = "running"
    /\ files' = [files EXCEPT ![index] = SaveJson(annotations, img_name)]
    /\ UNCHANGED << labels, images, label, index, annotations, target_index >>
    /\ Returns(KeyEvent("s"), SaveLog(annotations, files[index]))

\* keys 'w' (delta = -1) and 'x' (delta = 1): store.target_index += delta
Retarget(key, delta) ==
    /\ status = "running"
    /\ IF target_index = None THEN RaisesInLoop(KeyEvent(key), "TypeError")
       ELSE /\ target_index' = SetTargetIndex(annotations, target_index[1] + delta)
            /\ UNCHANGED << labels, images, label, index, annotations, files >>
            /\ Returns(KeyEvent(key), "Targeted crop changed")

KeyW == Retarget("w", -1)
KeyX == Retarget("x", 1)

-----------------------------------------------------------------------------
(* xml_to_json(input_dir, save_dir, map) *)

\* the file names of the images the XML files are about
XmlImages == { "a.jpg", "b.jpg" }
\* os.path.splitext(image_name)[0] + ".json"
JsonName(image_name) ==
    CASE image_name = "a.jpg" -> "a.json"
      [] image_name = "b.jpg" -> "b.json"
      [] OTHER -> "c.json"
JsonNames == { JsonName(n) : n \in XmlImages }

\* the object names of the XML files, and the substrings each is tested for
XmlLabels == { "stem_haricot", "tige_mais", "leaf" }
Contains(sub, name) ==
    \/ sub = "stem" /\ name = "stem_haricot"
    \/ sub = "tige" /\ name = "tige_mais"

\* int(v / 2) for an integer v: the quotient is truncated towards zero
IntHalf(v) == IF v >= 0 THEN v \div 2 ELSE -((-v) \div 2)

\* the crop of one <object>, for a label that passed the tests
CropOfObject(lbl, box) ==
    [label |-> lbl,
     box   |-> None,
     parts |-> << [kind |-> "stem",
                   location |-> [x |-> IntHalf(box.xmax + box.xmin),
                                 y |-> IntHalf(box.ymax + box.ymin)]] >>]

RECURSIVE CropsOfObjects(_, _)
\* the inner loop over xml.findall("object"), for the label map m
CropsOfObjects(objects, m) ==
    IF objects = << >> THEN << >>
    ELSE LET crop == Head(objects)
             rest == CropsOfObjects(Tail(objects), m)
         IN  IF ~Contains("stem", crop.name) /\ ~Contains("tige", crop.name) THEN rest
             ELSE IF m # None /\ crop.name \notin DOMAIN m[1] THEN rest
             ELSE << CropOfObject(IF m # None THEN m[1][crop.name] ELSE crop.name,
                                  crop.bndbox) >> \o rest

\* faulty variant: the file is written whether or not save_name exists
ConvertOverwrite(doc) ==
    LET save_name == JsonName(doc.filename)
        crops == CropsOfObjects(doc.objects, map)
    IN  /\ xml' = Some(doc)
        /\ xml_done' = xml_done + 1
        /\ save_dir' = [save_dir EXCEPT ![save_name] =
                           [exists |-> TRUE, image_name |-> doc.filename,
                            image_path |-> doc.path, crops |-> crops]]
        /\ UNCHANGED << map, toolvars >>

\* one iteration of the loop over xml_files, for the XML file doc
Convert(doc) ==
    LET save_name == JsonName(doc.filename)
        crops == CropsOfObjects(doc.objects, map)
    IN  /\ xml' = Some(doc)
        /\ xml_done' = xml_done + 1
        /\ save_dir' =
              IF save_dir[save_name].exists THEN save_dir
              ELSE [save_dir EXCEPT ![save_name] =
                       [exists |-> TRUE, image_name |-> doc.filename,
                        image_path |-> doc.path, crops |-> crops]]
        /\ UNCHANGED << map, toolvars >>

-----------------------------------------------------------------------------
(* The user: which gestures are made, within the bounds of the model *)

RECURSIVE Size(_)
\* entries + points + boxes of a list of annotations
Size(anns) ==
    IF anns = << >> THEN 0
    ELSE 1 + Len(Head(anns).points) + (IF Head(anns).box = None THEN 0 ELSE 1)
         + Size(Tail(anns))

\* by how much a gesture can grow the store
PointGrowth == IF StoreIsEmpty(annotations) THEN 2 ELSE 1
BoxGrowth ==
    IF StoreIsEmpty(annotations) THEN 2
    ELSE IF target_index # None /\ Target(annotations, target_index).box # None THEN 0
    ELSE 1
CommitGrowth ==
    IF ~StoreIsEmpty(annotations) /\ ~PlantIsEmpty(Last(annotations)) THEN 1 ELSE 0

Room(growth, cap) == Size(annotations) + growth <= cap

ImageNames == << "a.jpg", "b.jpg", "c.jpg", "d.jpg" >>

\* A session over a directory of NumImages images with the one default
\* label: the gestures that add and remove entries and points, retarget,
\* save, navigate and quit.
Init == Start(<< "bean" >>, SubSeq(ImageNames, 1, NumImages))

Next ==
    \/ \E p \in SessionPos : Room(PointGrowth, MaxSessionSize) /\ PointCommit(p[1], p[2])
    \/ KeyZ
    \/ Room(CommitGrowth, MaxSessionSize) /\ KeyA
    \/ KeyE
    \/ KeyR
    \/ KeyS
    \/ KeyW
    \/ KeyX
    \/ KeyQ

Spec == Init /\ [][Next]_vars

\* An edit session on a directory of one image with two labels: every
\* gesture of the mouse and every key but 's'; the store is saved by 'q'.
EditInit == Start(<< "bean", "weed" >>, SubSeq(ImageNames, 1, 1))

EditNext ==
    \/ \E p \in Pos : Room(PointGrowth, MaxSize) /\ PointCommit(p[1], p[2])
    \/ \E p \in Pos : CursorMove(p[1], p[2])
    \/ \E p \in Pos : DragMove(p[1], p[2])
    \/ \E p \in BoxOrigin : Room(BoxGrowth, MaxSize) /\ BoxBegin(p[1], p[2])
    \/ \E p \in Pos : BoxEnd(p[1], p[2])
    \/ KeyZ
    \/ Room(CommitGrowth, MaxSize) /\ KeyA
    \/ \E n \in 1..LastDigit : KeyDigit(n)
    \/ KeyE
    \/ KeyR
    \/ KeyW
    \/ KeyX
    \/ KeyQ

EditSpec == EditInit /\ [][EditNext]_vars

\* A box session on one image: a box is dragged from any position to any
\* position, any number of times, and the store is saved by 'q'.
BoxInit == Start(<< "bean" >>, SubSeq(ImageNames, 1, 1))

BoxNext ==
    \/ \E p \in BoxPos : BoxBegin(p[1], p[2])
    \/ \E p \in BoxPos : DragMove(p[1], p[2])
    \/ \E p \in BoxPos : BoxEnd(p[1], p[2])
    \/ KeyQ

BoxSpec == BoxInit /\ [][BoxNext]_vars

\* A conversion: input_dir holds at most MaxXml well-formed XML files, each
\* about one of two images with at most MaxObjects objects; save_dir holds,
\* for each image, no json file or one written by the annotation tool; the
\* label map is absent or knows one of the object names.
XmlBoxes == { [xmin |-> 1, ymin |-> 2, xmax |-> 4, ymax |-> 4] }
XmlObjects == [name : XmlLabels, bndbox : XmlBoxes]
XmlObjectLists ==
    UNION { [1..n -> XmlObjects] : n \in 0..MaxObjects }
XmlDocs == [filename : XmlImages, path : { "/data/images" }, objects : XmlObjectLists]
LabelMaps == { None, Some([n \in { "stem_haricot" } |-> "bean"]) }
ToolFile(n) ==
    [exists |-> TRUE, image_name |-> n,
     crops |-> << PlantJsonRepr(AppendPoint(PlantAnnotation("bean", None, << >>), 10, 10)) >>]

XmlInit ==
    /\ map \in LabelMaps
    /\ \E present \in SUBSET XmlImages :
          save_dir = [n \in JsonNames |->
                        IF \E i \in present : JsonName(i) = n
                        THEN ToolFile(CHOOSE i \in present : JsonName(i) = n)
                        ELSE NoFile]
    /\ xml = None
    /\ xml_done = 0
    /\ labels = << >>
    /\ images = << >>
    /\ label = ""
    /\ index = 0
    /\ annotations = << >>
    /\ target_index = None
    /\ files = << >>
    /\ event = [kind |-> "start", name |-> "", flags |-> 0, log |-> ""]
    /\ exc = "none"
    /\ status = "idle"

XmlNext == \E doc \in XmlDocs : xml_done < MaxXml /\ Convert(doc)

XmlSpec == XmlInit /\ [][XmlNext]_vars

-----------------------------------------------------------------------------
(* Properties *)

KeyPressed(k) == event.kind = "key" /\ event.name = k
KeyPressedNext(k) == event'.kind = "key" /\ event'.name = k

\* the indices of the non-empty entries, and the k-th of them
KeptSet(anns) == { j \in 1..Len(anns) : ~PlantIsEmpty(anns[j]) }
KeptIndex(anns, k) ==
    CHOOSE i \in KeptSet(anns) : Cardinality({ j \in KeptSet(anns) : j <= i }) = k
\* the json form of the non-empty entries, in store order
CropsOf(anns) ==
    [k \in 1..Cardinality(KeptSet(anns)) |-> PlantJsonRepr(anns[KeptIndex(anns, k)])]
\* the crops a file stands for: an absent file stands for no crop
Stored(file) == IF file.exists THEN file.crops ELSE << >>

\* C1: target_index is None exactly when the annotation sequence is empty,
\* and otherwise 0 <= target_index < len(annotations).
TargetIndexValid ==
    /\ (target_index = None) <=> (annotations = << >>)
    /\ target_index # None =>
          /\ target_index[1] >= 0
          /\ target_index[1] < Len(annotations)

\* C1 witness: a file of two crops was loaded on coming back to an image.
TargetIndexAfterLoad ==
    /\ KeyPressed("e")
    /\ event.log = "Annotations loaded from json file"
    /\ Len(annotations) = 2
    /\ target_index = Some(1)

\* C2: no point or box gesture evaluates store.target on a store without a
\* target (which raises TypeError: target_index is None).
MutationHasTarget ==
    event.kind = "mouse" => exc # "TypeError"

\* C3: a drag pointer-move or a box-end never finds the target without a box
\* (which raises AttributeError: store.target.box is None).
TailUpdateHasBox ==
    (event.kind = "mouse" /\ event.name \in { "MOUSEMOVE", "LBUTTONUP" }
        /\ event.flags = DragFlags) => exc # "AttributeError"

\* C4: undo on a non-empty store removes the target's box if it has one
\* (points untouched); else the target's last point if it has one; else the
\* target entry itself, the new target index being (old index - 1) modulo the
\* new length, None when the sequence becomes empty.
UndoThreeTiers ==
    [][ (KeyPressedNext("z") /\ annotations # << >>) =>
          LET i == target_index[1]
              t == annotations[i + 1]
              n == Len(annotations)
          IN  /\ exc' = "none"
              /\ IF t.box # None THEN
                     /\ annotations' = [annotations EXCEPT ![i + 1].box = None]
                     /\ target_index' = target_index
                 ELSE IF Len(t.points) >= 1 THEN
                     /\ annotations' = [annotations EXCEPT ![i + 1].points =
                                            SubSeq(t.points, 1, Len(t.points) - 1)]
                     /\ target_index' = target_index
                 ELSE
                     /\ Len(annotations') = n - 1
                     /\ \A k \in 1..(n - 1) :
                            annotations'[k] = annotations[IF k <= i THEN k ELSE k + 1]
                     /\ target_index' =
                            IF n - 1 = 0 THEN None ELSE Some((i - 1) % (n - 1))
      ]_vars

\* C4 witness: undo removed the first entry of three and the target wrapped
\* to the last of the two entries left.
UndoRemovedEntry ==
    /\ KeyPressed("z")
    /\ event.log = "Last Crop annotation removed"
    /\ Len(annotations) = 2
    /\ target_index = Some(1)

\* C5: in every annotation with points the first point is a stem and every
\* other point is a leaf.
StemFirst ==
    \A i \in 1..Len(annotations) :
        \A k \in 1..Len(annotations[i].points) :
            annotations[i].points[k].kind = (IF k = 1 THEN "stem" ELSE "leaf")

\* C5 witness: a second point was appended to an entry, away from the first.
StemThenLeaf ==
    /\ event.name = "LBUTTONDBLCLK"
    /\ \E i \in 1..Len(annotations) :
          /\ Len(annotations[i].points) = 2
          /\ annotations[i].points[1].x # annotations[i].points[2].x

\* C6 as claimed: commit appends an empty entry with the active label and
\* targets it when the current target is non-empty, and leaves the sequence
\* unchanged when the current target is empty.
CommitOnTarget ==
    [][ (KeyPressedNext("a") /\ target_index # None) =>
          IF ~PlantIsEmpty(Target(annotations, target_index)) THEN
              /\ annotations' = Append(annotations, PlantAnnotation(label, None, << >>))
              /\ target_index' = Some(Len(annotations))
          ELSE annotations' = annotations
      ]_vars

\* C6 as amended: commit appends an empty entry with the active label and
\* targets it when the store is non-empty and its last entry is non-empty;
\* otherwise the sequence is unchanged and the target becomes the last entry
\* (None on an empty store).
CommitOnLast ==
    [][ KeyPressedNext("a") =>
          IF annotations # << >> /\ ~PlantIsEmpty(annotations[Len(annotations)]) THEN
              /\ annotations' = Append(annotations, PlantAnnotation(label, None, << >>))
              /\ target_index' = Some(Len(annotations))
          ELSE
              /\ annotations' = annotations
              /\ target_index' =
                    IF annotations = << >> THEN None ELSE Some(Len(annotations) - 1)
      ]_vars

\* C6 witness: commit appended a third entry although an empty entry (the
\* first) was in the store.
CommitBesideEmptyEntry ==
    /\ KeyPressed("a")
    /\ event.log = "New crop annotation added (key 'a' pressed)"
    /\ Len(annotations) = 3
    /\ PlantIsEmpty(annotations[1])
    /\ target_index = Some(2)

\* C7: after a save the file of the image is absent exactly when the store is
\* empty or its first entry is empty; otherwise it holds the non-empty entries
\* of the store as crops, in store order.
SaveRule ==
    (KeyPressed("s") \/ KeyPressed("q")) =>
        IF annotations = << >> \/ PlantIsEmpty(annotations[1]) THEN
            ~files[index].exists
        ELSE
            /\ files[index].exists
            /\ files[index].image_name = img_name
            /\ files[index].crops = CropsOf(annotations)

\* C7 witness: a save removed the file of a store whose first entry is empty
\* and whose second entry is not.
SaveRemovedFile ==
    /\ KeyPressed("s")
    /\ event.log = "Json file removed because it was empty"
    /\ Len(annotations) = 2
    /\ ~PlantIsEmpty(annotations[2])

\* C8: after a save the file of the image is absent only when every entry of
\* the store is empty; otherwise it holds every non-empty entry as a crop.
SaveLosesNothing ==
    (KeyPressed("s") \/ KeyPressed("q")) =>
        IF KeptSet(annotations) = { } THEN ~files[index].exists
        ELSE /\ files[index].exists
             /\ files[index].crops = CropsOf(annotations)

\* two lists of annotations with the same labels, the same box corners and
\* the same points, in the same order
SameBox(b, c) ==
    IF b = None \/ c = None THEN b = c
    ELSE /\ x_min(b[1]) = x_min(c[1])
         /\ y_min(b[1]) = y_min(c[1])
         /\ x_max(b[1]) = x_max(c[1])
         /\ y_max(b[1]) = y_max(c[1])
Equivalent(a, b) ==
    /\ Len(a) = Len(b)
    /\ \A k \in 1..Len(a) :
          /\ a[k].label = b[k].label
          /\ SameBox(a[k].box, b[k].box)
          /\ Len(a[k].points) = Len(b[k].points)
          /\ \A m \in 1..Len(a[k].points) :
                /\ a[k].points[m].kind = b[k].points[m].kind
                /\ a[k].points[m].x = b[k].points[m].x
                /\ a[k].points[m].y = b[k].points[m].y

\* C9: when a store whose entries are all non-empty has been saved, loading
\* the file gives an equivalent store.
RoundTrip ==
    (KeyPressed("q") /\ \A k \in 1..Len(annotations) : ~PlantIsEmpty(annotations[k])) =>
        Equivalent(LoadFromJson(files[index]).annotations, annotations)

\* C9 witness: a saved store of two entries with different labels, one of
\* them with a box dragged from bottom right to top left and a point.
RoundTripReversedBox ==
    /\ KeyPressed("q")
    /\ Len(annotations) = 2
    /\ annotations[1].label # annotations[2].label
    /\ annotations[2].points # << >>
    /\ annotations[1].box # None
    /\ annotations[1].points # << >>
    /\ annotations[1].box[1].x > annotations[1].box[1].x2

\* C10: an accepted navigation and a quit leave, in the file of the image
\* being left, every non-empty entry of the store as it was, and touch no
\* other file.
FlushKeepsEveryEdit ==
    [][ (((KeyPressedNext("e") \/ KeyPressedNext("r")) /\ index' # index)
            \/ KeyPressedNext("q")) =>
          /\ \A i \in DOMAIN files : i # index => files'[i] = files[i]
          /\ Stored(files'[index]) = CropsOf(annotations)
      ]_vars

\* a step of an accepted navigation, and a step that saves the store
NavigateAccepted == (KeyPressedNext("e") \/ KeyPressedNext("r")) /\ index' # index
SaveStep == KeyPressedNext("s") \/ KeyPressedNext("q") \/ NavigateAccepted

\* a store whose first entry holds one point and no box, every other entry
\* being empty
OneStemPoint(anns) ==
    /\ anns # << >>
    /\ Len(anns[1].points) = 1
    /\ anns[1].box = None
    /\ \A k \in 2..Len(anns) : PlantIsEmpty(anns[k])

\* C11: navigating to an image without a file gives an empty store with
\* target_index None; a save of a store without point or box creates no file
\* for the image; and the image left with one stem point is saved with one
\* crop holding that stem part and a null box.
NavigateToFreshImage ==
    [][ /\ (NavigateAccepted /\ ~files[index'].exists) =>
              /\ annotations' = << >>
              /\ target_index' = None
        /\ (SaveStep /\ KeptSet(annotations) = { } /\ ~files[index].exists) =>
              ~files'[index].exists
        /\ (NavigateAccepted /\ OneStemPoint(annotations)) =>
              /\ files'[index].exists
              /\ files'[index].crops =
                    << [label |-> annotations[1].label,
                        box   |-> None,
                        parts |-> << [kind |-> "stem",
                                      location |-> [x |-> annotations[1].points[1].x,
                                                    y |-> annotations[1].points[1].y]] >>] >>
      ]_vars

\* C11 witness: the first image was left with one stem point at (10, 10) for
\* the second image, which has no file: its store is empty.
FreshImageAfterOneStem ==
    /\ KeyPressed("r")
    /\ index = 1
    /\ annotations = << >>
    /\ target_index = None
    /\ ~files[1].exists
    /\ files[0].exists
    /\ Len(files[0].crops) = 1
    /\ files[0].crops[1].box = None
    /\ files[0].crops[1].parts =
           << [kind |-> "stem", location |-> [x |-> 10, y |-> 10]] >>

\* C12: a save of an empty store leaves the file of the image absent, whether
\* or not it was there before, and leaves the files of the other images as
\* they were.
EmptySaveRemovesFile ==
    [][ (SaveStep /\ annotations = << >>) =>
          /\ ~files'[index].exists
          /\ \A i \in DOMAIN files : i # index => files'[i] = files[i]
      ]_vars

\* C12 witness: a save of the emptied store removed the file of the first
\* image while the second image has a file.
EmptySaveRemovedFile ==
    /\ KeyPressed("s")
    /\ event.log = "Json file removed because it was empty"
    /\ annotations = << >>
    /\ index = 0
    /\ ~files[0].exists
    /\ files[1].exists

\* C13: on a non-empty store 'w' and 'x' set target_index to (old index - 1)
\* and (old index + 1) modulo the length of the sequence, and change no
\* annotation.
RetargetWraps ==
    [][ ((KeyPressedNext("w") \/ KeyPressedNext("x")) /\ annotations # << >>) =>
          LET delta == IF KeyPressedNext("w") THEN -1 ELSE 1 IN
          /\ exc' = "none"
          /\ target_index' = Some((target_index[1] + delta) % Len(annotations))
          /\ annotations' = annotations
      ]_vars

\* C13 witness: 'w' on the first of three entries targeted the third.
RetargetWrappedDown ==
    /\ KeyPressed("w")
    /\ event.log = "Targeted crop changed"
    /\ Len(annotations) = 3
    /\ target_index = Some(2)
    /\ \E i \in 1..3 : ~PlantIsEmpty(annotations[i])

\* C14: 'w' and 'x' on an empty store raise nothing, leave the store empty
\* with target_index None, and leave the session running.
RetargetOnEmptyStore ==
    [][ ((KeyPressedNext("w") \/ KeyPressedNext("x")) /\ annotations = << >>) =>
          /\ exc' = "none"
          /\ status' = "running"
          /\ annotations' = << >>
          /\ target_index' = None
      ]_vars

\* C15: 'z' on an empty store raises nothing and leaves the store empty with
\* target_index None.
UndoOnEmptyStore ==
    [][ (KeyPressedNext("z") /\ annotations = << >>) =>
          /\ exc' = "none"
          /\ status' = "running"
          /\ annotations' = << >>
          /\ target_index' = None
      ]_vars

\* C15 witness: 'z' was pressed on an empty store.
UndoFoundNothing ==
    /\ KeyPressed("z")
    /\ event.log = "Key 'z' pressed but there is no annotation to remove"
    /\ annotations = << >>
    /\ target_index = None
    /\ status = "running"

\* C16: the image index stays within 0..len(images) - 1; 'e' lowers it by one
\* and 'r' raises it by one, except that 'e' on the first image and 'r' on the
\* last image leave index, store and files unchanged.
ImageIndexBounded ==
    [][ /\ index' \in 0..(Len(images) - 1)
        /\ index' # index => (KeyPressedNext("e") \/ KeyPressedNext("r"))
        /\ KeyPressedNext("e") =>
              IF index = 0
              THEN UNCHANGED << index, annotations, target_index, files >>
              ELSE index' = index - 1
        /\ KeyPressedNext("r") =>
              IF index = Len(images) - 1
              THEN UNCHANGED << index, annotations, target_index, files >>
              ELSE index' = index + 1
      ]_vars

\* C16 witness: 'r' was pressed on the last image over a store that has no
\* file yet.
NavigateIgnoredAtEnd ==
    /\ KeyPressed("r")
    /\ event.log = ""
    /\ index = Len(images) - 1
    /\ KeptSet(annotations) # { }
    /\ ~files[index].exists

\* a step of a gesture that edits the target: a mouse event, a digit key, or
\* 'z' over a target that holds a box or a point
TargetEdit ==
    \/ event'.kind = "mouse"
    \/ KeyPressedNext("digit")
    \/ /\ KeyPressedNext("z")
       /\ target_index # None
       /\ ~PlantIsEmpty(Target(annotations, target_index))

\* C18: mouse events, digit keys and the box and point tiers of 'z' leave
\* every entry but the target as it was; a digit key changes of the target
\* only the label, and changes nothing in an empty store or when the digit
\* exceeds len(labels).
OnlyTargetEdited ==
    [][ TargetEdit =>
          /\ IF annotations = << >> THEN Len(annotations') <= 1
             ELSE Len(annotations') = Len(annotations)
          /\ \A k \in 1..Len(annotations) :
                (target_index = None \/ k # target_index[1] + 1) =>
                    annotations'[k] = annotations[k]
          /\ KeyPressedNext("digit") =>
                /\ target_index' = target_index
                /\ annotations = << >> => annotations' = << >>
                /\ \A k \in 1..Len(annotations) :
                      /\ annotations'[k].box = annotations[k].box
                      /\ annotations'[k].points = annotations[k].points
                /\ event'.log = "" => annotations' = annotations
      ]_vars

\* C18 witness: a digit key relabelled the second of two entries, which holds
\* a point, the first entry keeping the other label.
RelabelledTargetOnly ==
    /\ KeyPressed("digit")
    /\ event.log = "Current crop label set"
    /\ Len(annotations) = 2
    /\ target_index = Some(1)
    /\ annotations[2].points # << >>
    /\ annotations[1].label # annotations[2].label

\* C19: every file on disk holds at least one crop, and no crop without
\* parts and without box.
NoDegenerateFile ==
    \A i \in DOMAIN files :
        files[i].exists =>
            /\ Len(files[i].crops) >= 1
            /\ \A k \in 1..Len(files[i].crops) :
                  ~(files[i].crops[k].parts = << >> /\ files[i].crops[k].box = None)

\* C19 witness: a save wrote one crop for a store of two entries, the second
\* of them empty.
SaveDroppedEmptyEntry ==
    /\ KeyPressed("s")
    /\ event.log = "Saved Json file"
    /\ Len(annotations) = 2
    /\ PlantIsEmpty(annotations[2])
    /\ files[index].exists
    /\ Len(files[index].crops) = 1

\* the boxes of the store
Boxes == { annotations[k].box[1] :
             k \in { j \in 1..Len(annotations) : annotations[j].box # None } }

\* C17: for every box dragged between two corners, x_min <= x_max,
\* y_min <= y_max, width >= 0 and height >= 0; the box dragged between the
\* same corners in any of the four directions is encoded the same; and the
\* drag (5, 5) to (1, 1) is encoded as x_min 1, y_min 1, x_max 5, y_max 5.
BoxNormalised ==
    \A b \in Boxes :
        /\ x_min(b) <= x_max(b)
        /\ y_min(b) <= y_max(b)
        /\ width(b) >= 0
        /\ height(b) >= 0
        /\ BoxJsonRepr(b) = BoxJsonRepr(BoxAnnotation(b.x2, b.y2, b.x, b.y))
        /\ BoxJsonRepr(b) = BoxJsonRepr(BoxAnnotation(b.x2, b.y, b.x, b.y2))
        /\ BoxJsonRepr(b) = BoxJsonRepr(BoxAnnotation(b.x, b.y2, b.x2, b.y))
        /\ b = BoxAnnotation(5, 5, 1, 1) =>
              BoxJsonRepr(b) = [x_min |-> 1, y_min |-> 1, x_max |-> 5, y_max |-> 5]
        /\ KeyPressed("q") =>
              /\ files[index].exists
              /\ \E k \in 1..Len(files[index].crops) :
                    files[index].crops[k].box = Some(BoxJsonRepr(b))

\* C17 witness: the box dragged from (5, 5) to (1, 1) was saved.
ReversedDragSaved ==
    /\ KeyPressed("q")
    /\ Boxes = { BoxAnnotation(5, 5, 1, 1) }
    /\ files[index].crops[1].box =
           Some([x_min |-> 1, y_min |-> 1, x_max |-> 5, y_max |-> 5])

\* C20: the converter writes no file without crops: a step of the loop that
\* changes a file of save_dir leaves it with at least one crop.
ConverterWritesCrops ==
    [][ \A n \in DOMAIN save_dir :
            save_dir'[n] # save_dir[n] => save_dir'[n].crops # << >>
      ]_vars

\* C21: on a non-empty store 'z' raises nothing and lowers the number of
\* entries + points + boxes by exactly one, and removes an entry only when
\* that entry, the target, holds no point and no box; so the store of size n
\* is empty after n presses of 'z' and not before.
UndoLowersSizeByOne ==
    [][ (KeyPressedNext("z") /\ annotations # << >>) =>
          /\ exc' = "none"
          /\ status' = "running"
          /\ Size(annotations') = Size(annotations) - 1
          /\ Len(annotations') >= Len(annotations) - 1
          /\ Len(annotations') < Len(annotations) =>
                /\ PlantIsEmpty(Target(annotations, target_index))
                /\ annotations' = DelAt(annotations, target_index[1])
          /\ (annotations' = << >>) <=> (Size(annotations) = 1)
      ]_vars

\* C21 witness: 'z' removed the second of two points of the target, in a
\* store of two entries.
UndoRemovedSecondPoint ==
    /\ KeyPressed("z")
    /\ event.log = "Last keypoint annotation removed"
    /\ Len(annotations) = 2
    /\ target_index # None
    /\ Len(Target(annotations, target_index).points) = 1
    /\ Size(annotations) >= 3

\* C22: an iteration of the converter's loop leaves every json file that
\* exists in save_dir as it is; for an XML file whose json name exists it
\* changes nothing in save_dir, and for any other XML file it writes the
\* file of that name and no other.
ConverterKeepsExistingFiles ==
    [][ xml_done' # xml_done =>
          LET save_name == JsonName(xml'[1].filename) IN
          /\ \A n \in DOMAIN save_dir :
                save_dir[n].exists => save_dir'[n] = save_dir[n]
          /\ DOMAIN save_dir' = DOMAIN save_dir
          /\ IF save_dir[save_name].exists THEN save_dir' = save_dir
             ELSE /\ save_dir'[save_name].exists
                  /\ save_dir'[save_name].image_name = xml'[1].filename
                  /\ { n \in DOMAIN save_dir : save_dir'[n] # save_dir[n] } = { save_name }
      ]_vars

\* C22 witness: the loop wrote b.json and then took an XML file for a.jpg
\* with a stem object while a.json, written by the annotation tool, is in
\* save_dir: a.json is as the tool wrote it.
ExistingFileSkipped ==
    /\ xml_done = 2
    /\ xml # None
    /\ xml[1].filename = "a.jpg"
    /\ CropsOfObjects(xml[1].objects, map) # << >>
    /\ save_dir["a.json"] = ToolFile("a.jpg")
    /\ save_dir["b.json"].exists
    /\ "image_path" \in DOMAIN save_dir["b.json"]

=============================================================================
